---- MODULE Spec2Model ----
\* Verification model of the dashboard's static snapshot loader, the
\* data-source facade with its filtering and aggregation helpers, the
\* filter bar, the trend lines of the charts and the password gate
\* (frontend/src/api.ts, frontend/src/types.ts, components/FilterBar.tsx,
\* components/VolumeMetrics.tsx, components/AccuracyMetrics.tsx,
\* frontend/src/App.tsx, components/PasswordGate.tsx).
EXTENDS Integers, Sequences, FiniteSets, TLC

\* ---------------------------------------------------------------------
\* Bounds and value sets
\* ---------------------------------------------------------------------

\* number of facade calls issued during one page life
MaxCalls == 2

Calls == 1 .. MaxCalls

\* JavaScript null / undefined / "" (every falsy id)
NULL == "null"

OrgIds == {"o1", "o2"}

SupplierIds == {"s1", "s2"}

\* ---------------------------------------------------------------------
\* Files served under /data
\* ---------------------------------------------------------------------

\* Values JSON.parse can return for the data bundle, reduced to what
\* loadStaticData reads: null, an object with by_org (its keys), an object
\* with organization (legacy), an object with neither.
BundleValues ==
  { [kind |-> "null", by_org |-> {}],
    [kind |-> "shapeless", by_org |-> {}],
    [kind |-> "legacy", by_org |-> {}],
    [kind |-> "multi", by_org |-> {"o1"}],
    [kind |-> "multi", by_org |-> {"o1", "o2"}] }

\* Values of metadata.json: an object whose organizations roster is the
\* given sequence of ids.
MetadataValues ==
  { [kind |-> "object", organizations |-> <<>>],
    [kind |-> "object", organizations |-> <<"o1", "o2">>],
    [kind |-> "object", organizations |-> <<"o2", "o1">>] }

\* what an earlier session can have left under staticDashboardOrgId
SavedOrgIds == {NULL, "o2"}

\* the document is denied access to storage: reading window.localStorage
\* throws a SecurityError, for getItem and setItem alike
Denied == "denied"

\* the file pairs and stored choices a page can start with: every roster
\* and stored choice with a by_org bundle, and such a bundle in a document
\* without access to storage; the other bundles, whose load reads neither
\* roster nor storage, with an empty roster and nothing stored
Exports ==
  { [bundle |-> b, metadata |-> m, saved |-> o] :
      b \in {v \in BundleValues : v.kind = "multi"},
      m \in MetadataValues, o \in SavedOrgIds }
  \cup
  { [bundle |-> [kind |-> "multi", by_org |-> {"o1", "o2"}],
     metadata |-> [kind |-> "object", organizations |-> <<"o1", "o2">>],
     saved |-> Denied] }
  \cup
  { [bundle |-> b, metadata |-> [kind |-> "object", organizations |-> <<>>],
     saved |-> NULL] :
      b \in {v \in BundleValues : v.kind # "multi"} }

\* a field of staticData that was never assigned
Unset == [kind |-> "none", by_org |-> {}]

UnsetMetadata == [kind |-> "none", organizations |-> <<>>]

\* outcome of one request, body read and parse included: "ok" yields the
\* file's value, "missing" is a response that is not ok (no such file),
\* "throws" is a rejected fetch or a body that does not decompress or parse
GzOutcomes == {"ok", "throws", "missing"}

JsonOutcomes == {"ok", "throws", "missing"}

MetaOutcomes == {"ok", "throws"}

VARIABLES
  STATIC_MODE,     \* import.meta.env.VITE_STATIC_DATA === 'true'
  bundleFile,      \* content of /data/dashboard-data.json(.gz)
  metadataFile,    \* content of /data/metadata.json
  staticData,      \* the module-level cache of api.ts
  localStorage,    \* value under key staticDashboardOrgId
  calls,           \* per facade call: position, fetch outcomes, result
  filters,         \* Dashboard's FilterState
  staticMetadata,  \* FilterBar's component state
  lastParams,      \* query parameters of the last live request
  lastOp,          \* the operation that produced the current state
  source,          \* what a facade function reads: a metric section of the
                   \* active slice (static) or the backend's reply (live)
  response,        \* what the last facade function returned
  DASHBOARD_PASSWORD,  \* import.meta.env.VITE_DASHBOARD_PASSWORD ?? ''
  sessionStorage,  \* value under key dashboard_unlocked
  unlocked,        \* App's component state
  gate,            \* PasswordGate's component state: value, error
  submitted        \* the values submitted to the gate in this session

\* the variables of the metric path of the facade
metricVars == <<source, response>>

\* the variables of the password gate
gateVars == <<DASHBOARD_PASSWORD, sessionStorage, unlocked, gate, submitted>>

vars == <<STATIC_MODE, bundleFile, metadataFile, staticData, localStorage,
          calls, filters, staticMetadata, lastParams, lastOp, source,
          response, DASHBOARD_PASSWORD, sessionStorage, unlocked, gate,
          submitted>>

\* the record lastOp holds: the handler or API function that ran last, its
\* argument, and whether its storage write went through
Op(name, arg) == [op |-> name, arg |-> arg, ok |-> TRUE]

\* ---------------------------------------------------------------------
\* api.ts: the cache and the loader
\* ---------------------------------------------------------------------

InitStaticData ==
  [ organization |-> NULL, suppliers |-> NULL, perSupplier |-> NULL,
    metadata |-> UnsetMetadata, currentSupplierId |-> NULL,
    fullPayload |-> Unset, currentOrganizationId |-> NULL ]

\* JavaScript truthiness of the values the cache holds
Truthy(v) == v.kind \notin {"none", "null"}

\* by_org[orgId] of the bundle: the slice's three parts are tagged with the
\* organization they belong to
HasOrg(payload, orgId) == payload.kind = "multi" /\ orgId \in payload.by_org

\* applyStaticOrg replacing the organization part of the slice only
applyStaticOrgOrganizationOnly(sd, orgId) ==
  IF ~HasOrg(sd.fullPayload, orgId) THEN sd
  ELSE [sd EXCEPT !.organization = orgId,
                  !.currentOrganizationId = orgId]

applyStaticOrg(sd, orgId) ==
  IF ~HasOrg(sd.fullPayload, orgId) THEN sd
  ELSE [sd EXCEPT !.organization = orgId,
                  !.suppliers = orgId,
                  !.perSupplier = orgId,
                  !.currentOrganizationId = orgId]

\* fetchDashboardJson falling back to an empty payload when neither file is
\* there
fetchDashboardJsonSilent(gz, json) ==
  CASE gz = "pending" -> "pending"
    [] gz = "ok" -> "value"
    [] gz = "throws" -> "error"
    [] gz = "missing" /\ json = "pending" -> "pending"
    [] gz = "missing" /\ json \in {"ok", "missing"} -> "value"
    [] OTHER -> "error"

\* state of the promise fetchDashboardJson returns, from the outcomes of the
\* two requests it makes
fetchDashboardJson(gz, json) ==
  CASE gz = "pending" -> "pending"
    [] gz = "ok" -> "value"
    [] gz = "throws" -> "error"
    [] gz = "missing" /\ json = "pending" -> "pending"
    [] gz = "missing" /\ json = "ok" -> "value"
    [] OTHER -> "error"

\* state of fetch('/data/metadata.json').then(r => r.json())
fetchMetadataJson(meta) ==
  CASE meta = "pending" -> "pending"
    [] meta = "ok" -> "value"
    [] OTHER -> "error"

\* the guard of loadStaticData
AlreadyLoaded(sd) ==
  Truthy(sd.metadata) /\ (sd.organization # NULL \/ Truthy(sd.fullPayload))

\* reading dashboardData.by_org of null throws
LoadThrows(dashboardData) == dashboardData.kind = "null"

\* in the by_org branch, reading localStorage throws when the document is
\* denied access to storage
ReadThrows(dashboardData, savedOrgId) ==
  dashboardData.kind = "multi" /\ savedOrgId = Denied

\* the body of loadStaticData never consulting the persisted choice
LoadAssignFirstListed(sd, dashboardData, metadata, savedOrgId) ==
  LET sd1 == [sd EXCEPT !.metadata = metadata] IN
  IF LoadThrows(dashboardData) THEN sd1
  ELSE IF dashboardData.kind = "multi" THEN
    LET sd2 == [sd1 EXCEPT !.fullPayload = dashboardData]
        orgs == IF Truthy(metadata) THEN metadata.organizations ELSE <<>>
        orgId == IF Len(orgs) > 0 THEN orgs[1] ELSE NULL
    IN IF orgId # NULL THEN applyStaticOrg(sd2, orgId) ELSE sd2
  ELSE
    LET part == IF dashboardData.kind = "legacy" THEN "legacy" ELSE NULL
    IN [sd1 EXCEPT !.organization = part,
                   !.suppliers = part,
                   !.perSupplier = part]

\* the body of loadStaticData after the await
LoadAssign(sd, dashboardData, metadata, savedOrgId) ==
  LET sd1 == [sd EXCEPT !.metadata = metadata] IN
  IF LoadThrows(dashboardData) THEN sd1
  ELSE IF dashboardData.kind = "multi" THEN
    LET sd2 == [sd1 EXCEPT !.fullPayload = dashboardData]
        orgs == IF Truthy(metadata) THEN metadata.organizations ELSE <<>>
        orgId == IF savedOrgId # NULL /\ HasOrg(dashboardData, savedOrgId)
                 THEN savedOrgId
                 ELSE IF Len(orgs) > 0 THEN orgs[1] ELSE NULL
    IN IF ReadThrows(dashboardData, savedOrgId) THEN sd2
       ELSE IF orgId # NULL THEN applyStaticOrg(sd2, orgId) ELSE sd2
  ELSE
    LET part == IF dashboardData.kind = "legacy" THEN "legacy" ELSE NULL
    IN [sd1 EXCEPT !.organization = part,
                   !.suppliers = part,
                   !.perSupplier = part]

\* what a row-collection facade function returns from the cache
FacadeResult(sd) == IF sd.organization = NULL THEN "empty" ELSE "data"

IdleCall == [pc |-> "idle", gz |-> "none", json |-> "none", meta |-> "none",
             result |-> "none"]

\* the FilterBar's mount effect issues the first facade call
BarCall == 1

\* the continuation of a facade call once Promise.all has settled
Settle(c, cs) ==
  LET b == fetchDashboardJson(cs[c].gz, cs[c].json)
      m == fetchMetadataJson(cs[c].meta)
  IN
  IF calls[c].pc # "awaiting" \/ (b = "pending" /\ m # "error")
     \/ (m = "pending" /\ b # "error")
  THEN /\ calls' = cs
       /\ UNCHANGED <<staticData, staticMetadata>>
  ELSE IF b = "error" \/ m = "error"
  THEN /\ calls' = [cs EXCEPT ![c].pc = "done", ![c].result = "rejected"]
       /\ UNCHANGED <<staticData, staticMetadata>>
  ELSE LET sd == LoadAssign(staticData, bundleFile, metadataFile, localStorage)
           ok == /\ ~LoadThrows(bundleFile)
                 /\ ~ReadThrows(bundleFile, localStorage)
       IN /\ staticData' = sd
          /\ calls' = [cs EXCEPT ![c].pc = "done",
                                 ![c].result = IF ok THEN FacadeResult(sd)
                                               ELSE "rejected"]
          /\ staticMetadata' = IF ok /\ c = BarCall THEN sd.metadata
                               ELSE staticMetadata

\* a facade function is called: fetchFaxVolume etc. -> loadStaticData
FacadeCall(c) ==
  /\ STATIC_MODE
  /\ calls[c].pc = "idle"
  /\ \A d \in Calls : d < c => calls[d].pc # "idle"
  /\ IF AlreadyLoaded(staticData)
     THEN /\ calls' = [calls EXCEPT ![c].pc = "done",
                                    ![c].result = FacadeResult(staticData)]
          /\ staticMetadata' = IF c = BarCall THEN staticData.metadata
                               ELSE staticMetadata
     ELSE /\ calls' = [calls EXCEPT ![c].pc = "awaiting",
                                    ![c].gz = "pending",
                                    ![c].meta = "pending"]
          /\ UNCHANGED staticMetadata
  /\ lastOp' = Op("loader", NULL)
  /\ UNCHANGED <<gateVars, metricVars, STATIC_MODE, bundleFile, metadataFile, staticData,
                 localStorage, filters, lastParams>>

GzResponse(c, out) ==
  /\ calls[c].gz = "pending"
  /\ Settle(c, [calls EXCEPT ![c].gz = out,
                             ![c].json = IF out = "missing" THEN "pending"
                                         ELSE "none"])
  /\ lastOp' = Op("loader", NULL)
  /\ UNCHANGED <<gateVars, metricVars, STATIC_MODE, bundleFile, metadataFile, localStorage,
                 filters, lastParams>>

JsonResponse(c, out) ==
  /\ calls[c].json = "pending"
  /\ Settle(c, [calls EXCEPT ![c].json = out])
  /\ lastOp' = Op("loader", NULL)
  /\ UNCHANGED <<gateVars, metricVars, STATIC_MODE, bundleFile, metadataFile, localStorage,
                 filters, lastParams>>

MetaResponse(c, out) ==
  /\ calls[c].meta = "pending"
  /\ Settle(c, [calls EXCEPT ![c].meta = out])
  /\ lastOp' = Op("loader", NULL)
  /\ UNCHANGED <<gateVars, metricVars, STATIC_MODE, bundleFile, metadataFile, localStorage,
                 filters, lastParams>>

\* setStaticOrganizationId without the localStorage.setItem call
setStaticOrganizationIdUnsaved(orgId, writeOk) ==
  IF ~STATIC_MODE THEN UNCHANGED <<staticData, localStorage>>
  ELSE IF orgId # NULL
  THEN /\ staticData' = applyStaticOrg(staticData, orgId)
       /\ UNCHANGED localStorage
  ELSE /\ staticData' = [staticData EXCEPT !.currentOrganizationId = NULL]
       /\ UNCHANGED localStorage

\* setStaticOrganizationId; writeOk is whether localStorage.setItem returns
\* instead of throwing into the empty catch, as it does in a document
\* without access to storage
setStaticOrganizationId(orgId, writeOk) ==
  IF ~STATIC_MODE THEN UNCHANGED <<staticData, localStorage>>
  ELSE IF orgId # NULL
  THEN /\ staticData' = applyStaticOrg(staticData, orgId)
       /\ localStorage' = IF writeOk THEN orgId ELSE localStorage
  ELSE /\ staticData' = [staticData EXCEPT !.currentOrganizationId = NULL]
       /\ UNCHANGED localStorage

getStaticOrganizationId ==
  IF STATIC_MODE THEN staticData.currentOrganizationId ELSE NULL

\* a caller of the exported setStaticOrganizationId
SwitchOrganization(orgId, writeOk) ==
  /\ STATIC_MODE
  /\ localStorage = Denied => ~writeOk
  /\ setStaticOrganizationId(orgId, writeOk)
  /\ lastOp' = [op |-> "setStaticOrganizationId", arg |-> orgId,
                 ok |-> writeOk \/ orgId = NULL]
  /\ UNCHANGED <<gateVars, metricVars, STATIC_MODE, bundleFile, metadataFile, calls, filters,
                 staticMetadata, lastParams>>

\* setStaticSupplierFilter
setStaticSupplierFilter(supplierId) ==
  IF STATIC_MODE
  THEN staticData' = [staticData EXCEPT !.currentSupplierId = supplierId]
  ELSE UNCHANGED staticData

\* the query parameters a live request carries (dates left out)
buildParams(f) ==
  [ ai_intake_only |-> f.aiIntakeOnly,
    supplier_id |-> IF f.supplierId # NULL THEN f.supplierId ELSE "unset",
    supplier_organization_id |->
      IF f.supplierOrganizationId # NULL THEN f.supplierOrganizationId
      ELSE "unset" ]

\* ---------------------------------------------------------------------
\* FilterBar.tsx and Dashboard.tsx
\* ---------------------------------------------------------------------

InitFilters ==
  [supplierId |-> NULL, supplierOrganizationId |-> NULL, aiIntakeOnly |-> TRUE]

NoParams == [ai_intake_only |-> FALSE, supplier_id |-> "unset",
             supplier_organization_id |-> "unset"]

\* FilterBar renders the static controls once its metadata has arrived,
\* the live controls otherwise
StaticBarShown == STATIC_MODE /\ Truthy(staticMetadata)

\* the ids the static organization dropdown offers (shown for a roster of
\* more than one organization)
StaticOrgOptions ==
  IF Len(staticMetadata.organizations) > 1
  THEN {staticMetadata.organizations[i] :
          i \in 1 .. Len(staticMetadata.organizations)}
  ELSE {}

\* handleOrganizationChange keeping the supplier selection
handleOrganizationChangeKeepingSupplier(value) ==
  /\ ~StaticBarShown
  /\ filters' = [filters EXCEPT !.supplierOrganizationId = value]
  /\ lastOp' = Op("handleOrganizationChange", value)
  /\ UNCHANGED <<gateVars, metricVars, STATIC_MODE, bundleFile, metadataFile, staticData,
                 localStorage, calls, staticMetadata, lastParams>>

handleOrganizationChange(value) ==
  /\ ~StaticBarShown
  /\ filters' = [filters EXCEPT !.supplierOrganizationId = value,
                                !.supplierId = NULL]
  /\ lastOp' = Op("handleOrganizationChange", value)
  /\ UNCHANGED <<gateVars, metricVars, STATIC_MODE, bundleFile, metadataFile, staticData,
                 localStorage, calls, staticMetadata, lastParams>>

handleSupplierChange(value) ==
  /\ ~StaticBarShown
  /\ filters' = [filters EXCEPT !.supplierId = value]
  /\ lastOp' = Op("handleSupplierChange", value)
  /\ UNCHANGED <<gateVars, metricVars, STATIC_MODE, bundleFile, metadataFile, staticData,
                 localStorage, calls, staticMetadata, lastParams>>

handleAiToggle ==
  /\ ~StaticBarShown
  /\ filters' = [filters EXCEPT !.aiIntakeOnly = ~filters.aiIntakeOnly]
  /\ lastOp' = Op("handleAiToggle", NULL)
  /\ UNCHANGED <<gateVars, metricVars, STATIC_MODE, bundleFile, metadataFile, staticData,
                 localStorage, calls, staticMetadata, lastParams>>

handleStaticOrgChange(value, writeOk) ==
  /\ StaticBarShown
  /\ localStorage = Denied => ~writeOk
  /\ value \in StaticOrgOptions
  /\ setStaticOrganizationId(value, writeOk)
  /\ filters' = [filters EXCEPT !.supplierOrganizationId = value,
                                !.supplierId = NULL]
  /\ lastOp' = [op |-> "handleStaticOrgChange", arg |-> value,
                 ok |-> writeOk]
  /\ UNCHANGED <<gateVars, metricVars, STATIC_MODE, bundleFile, metadataFile, calls,
                 staticMetadata, lastParams>>

handleStaticSupplierChange(value) ==
  /\ StaticBarShown
  /\ setStaticSupplierFilter(value)
  /\ filters' = [filters EXCEPT !.supplierId = value]
  /\ lastOp' = Op("handleStaticSupplierChange", value)
  /\ UNCHANGED <<gateVars, metricVars, STATIC_MODE, bundleFile, metadataFile, localStorage, calls,
                 staticMetadata, lastParams>>

\* the live path of a facade function: one request with buildParams(filters)
LiveRequest ==
  /\ ~STATIC_MODE
  /\ lastParams' = buildParams(filters)
  /\ lastOp' = Op("fetchFaxVolume", NULL)
  /\ UNCHANGED <<gateVars, metricVars, STATIC_MODE, bundleFile, metadataFile, staticData,
                 localStorage, calls, filters, staticMetadata>>

\* ---------------------------------------------------------------------
\* api.ts: filtering and aggregation helpers
\*
\* Numbers are integers: minutes and percentages are carried in hundredths
\* (so Math.round(x * 100) / 100 is a rounding to an integer), median
\* minutes in tenths, documents per day in thousandths (so that rounding
\* them to 2 decimals is a rounding to a multiple of 10). Dates are day
\* numbers, which order as the ISO yyyy-MM-dd strings do under
\* localeCompare.
\* ---------------------------------------------------------------------

\* longest row collection of a section or reply
MaxRows == 2

\* null / undefined in a numeric field
NoValue == -1

\* Math.round(num / den) for den > 0
Round(num, den) == (2 * num + den) \div (2 * den)

\* Array.prototype.reduce((s, x) => s + x, 0)
RECURSIVE SumSeq(_)
SumSeq(s) == IF s = <<>> THEN 0 ELSE Head(s) + SumSeq(Tail(s))

\* data.reduce((s, r) => s + F(r), 0)
SumOf(data, F(_)) == SumSeq([i \in 1 .. Len(data) |-> F(data[i])])

\* the keys of a Map in insertion order, from the keys of the rows set
\* into it in turn
RECURSIVE MapKeys(_)
MapKeys(ks) ==
  IF ks = <<>> THEN <<>>
  ELSE LET front == MapKeys(SubSeq(ks, 1, Len(ks) - 1))
           last == ks[Len(ks)]
       IN IF \E i \in 1 .. Len(front) : front[i] = last THEN front
          ELSE Append(front, last)

\* one step of a stable sort: pair p goes behind every pair whose key is
\* not greater
InsertSorted(sorted, p) ==
  LET j == Cardinality({i \in 1 .. Len(sorted) : sorted[i][1] <= p[1]})
  IN SubSeq(sorted, 1, j) \o <<p>> \o SubSeq(sorted, j + 1, Len(sorted))

RECURSIVE SortPairs(_)
SortPairs(ps) ==
  IF ps = <<>> THEN <<>>
  ELSE InsertSorted(SortPairs(SubSeq(ps, 1, Len(ps) - 1)), ps[Len(ps)])

\* the rows left in Map insertion order, without the sort
InsertionOrder(rows, keys) == rows

\* Array.prototype.sort (stable) with a comparator a.key - b.key, the key
\* of row i being keys[i]
StableSort(rows, keys) ==
  LET sp == SortPairs([i \in 1 .. Len(rows) |-> <<keys[i], rows[i]>>])
  IN [i \in 1 .. Len(sp) |-> sp[i][2]]

filterBySupplier(data, supplierId) ==
  IF supplierId = NULL THEN data
  ELSE SelectSeq(data, LAMBDA item : item.supplier_id = supplierId)

aggregateVolumeByDate(data) ==
  LET dates == MapKeys([i \in 1 .. Len(data) |-> data[i].date])
      byDate(d) == SelectSeq(data, LAMBDA row : row.date = d)
      out == [j \in 1 .. Len(dates) |->
                [date |-> dates[j],
                 count |-> SumOf(byDate(dates[j]), LAMBDA row : row.count)]]
  IN StableSort(out, [j \in 1 .. Len(out) |-> out[j].date])

\* aggregateCycleTimeByDate averaging the rows of a date without weights
aggregateCycleTimeByDateUnweighted(data) ==
  LET dates == MapKeys([i \in 1 .. Len(data) |-> data[i].date])
      byDate(d) == SelectSeq(data, LAMBDA row : row.date = d)
      totalCount(d) == SumOf(byDate(d), LAMBDA row : row.count)
      out == [j \in 1 .. Len(dates) |->
                [date |-> dates[j],
                 avg_minutes |->
                   IF totalCount(dates[j]) > 0
                   THEN Round(SumOf(byDate(dates[j]),
                                    LAMBDA row : row.avg_minutes),
                              Len(byDate(dates[j])))
                   ELSE 0,
                 count |-> totalCount(dates[j])]]
  IN StableSort(out, [j \in 1 .. Len(out) |-> out[j].date])

\* aggregateCycleTimeByDate with Math.floor in place of Math.round
aggregateCycleTimeByDateFloored(data) ==
  LET dates == MapKeys([i \in 1 .. Len(data) |-> data[i].date])
      byDate(d) == SelectSeq(data, LAMBDA row : row.date = d)
      weightedSum(d) ==
        SumOf(byDate(d), LAMBDA row : row.avg_minutes * row.count)
      totalCount(d) == SumOf(byDate(d), LAMBDA row : row.count)
      out == [j \in 1 .. Len(dates) |->
                [date |-> dates[j],
                 avg_minutes |->
                   IF totalCount(dates[j]) > 0
                   THEN weightedSum(dates[j]) \div totalCount(dates[j])
                   ELSE 0,
                 count |-> totalCount(dates[j])]]
  IN StableSort(out, [j \in 1 .. Len(out) |-> out[j].date])

aggregateCycleTimeByDate(data) ==
  LET dates == MapKeys([i \in 1 .. Len(data) |-> data[i].date])
      byDate(d) == SelectSeq(data, LAMBDA row : row.date = d)
      weightedSum(d) ==
        SumOf(byDate(d), LAMBDA row : row.avg_minutes * row.count)
      totalCount(d) == SumOf(byDate(d), LAMBDA row : row.count)
      out == [j \in 1 .. Len(dates) |->
                [date |-> dates[j],
                 avg_minutes |->
                   IF totalCount(dates[j]) > 0
                   THEN Round(weightedSum(dates[j]), totalCount(dates[j]))
                   ELSE 0,
                 count |-> totalCount(dates[j])]]
  IN StableSort(out, [j \in 1 .. Len(out) |-> out[j].date])

computeOverallAvg(data) ==
  LET totalCount == SumOf(data, LAMBDA r : r.count)
      weightedSum == SumOf(data, LAMBDA r : r.avg_minutes * r.count)
  IN IF totalCount = 0 THEN 0 ELSE Round(weightedSum, totalCount)

\* aggregateProductivityByUser with a median of 0 where no row of the user
\* carries a weighted median
aggregateProductivityByUserZeroMedian(data) ==
  LET users == MapKeys([i \in 1 .. Len(data) |-> data[i].user_id])
      byUser(u) == SelectSeq(data, LAMBDA row : row.user_id = u)
      measured(u) ==
        SelectSeq(byUser(u), LAMBDA row : row.median_minutes # NoValue)
      medianWeightedSum(u) ==
        SumOf(measured(u), LAMBDA row : row.median_minutes * row.total_processed)
      medianCount(u) == SumOf(measured(u), LAMBDA row : row.total_processed)
      out == [j \in 1 .. Len(users) |->
                [user_id |-> users[j],
                 user_name |-> byUser(users[j])[1].user_name,
                 total_processed |->
                   SumOf(byUser(users[j]), LAMBDA row : row.total_processed),
                 avg_per_day |->
                   10 * Round(SumOf(byUser(users[j]),
                                    LAMBDA row : row.avg_per_day), 10),
                 median_minutes |->
                   IF medianCount(users[j]) > 0
                   THEN Round(medianWeightedSum(users[j]),
                              medianCount(users[j]))
                   ELSE 0]]
  IN StableSort(out, [j \in 1 .. Len(out) |-> 0 - out[j].total_processed])

\* aggregateProductivityByUser taking an absent median_minutes as 0 minutes
\* at the row's full weight
aggregateProductivityByUserAbsentAsZero(data) ==
  LET users == MapKeys([i \in 1 .. Len(data) |-> data[i].user_id])
      byUser(u) == SelectSeq(data, LAMBDA row : row.user_id = u)
      medianWeightedSum(u) ==
        SumOf(byUser(u),
              LAMBDA row : IF row.median_minutes = NoValue THEN 0
                           ELSE row.median_minutes * row.total_processed)
      medianCount(u) == SumOf(byUser(u), LAMBDA row : row.total_processed)
      out == [j \in 1 .. Len(users) |->
                [user_id |-> users[j],
                 user_name |-> byUser(users[j])[1].user_name,
                 total_processed |->
                   SumOf(byUser(users[j]), LAMBDA row : row.total_processed),
                 avg_per_day |->
                   10 * Round(SumOf(byUser(users[j]),
                                    LAMBDA row : row.avg_per_day), 10),
                 median_minutes |->
                   IF medianCount(users[j]) > 0
                   THEN Round(medianWeightedSum(users[j]),
                              medianCount(users[j]))
                   ELSE NoValue]]
  IN StableSort(out, [j \in 1 .. Len(out) |-> 0 - out[j].total_processed])

\* median_minutes undefined (NoValue) when no row of the user carries a
\* weighted median
aggregateProductivityByUser(data) ==
  LET users == MapKeys([i \in 1 .. Len(data) |-> data[i].user_id])
      byUser(u) == SelectSeq(data, LAMBDA row : row.user_id = u)
      measured(u) ==
        SelectSeq(byUser(u), LAMBDA row : row.median_minutes # NoValue)
      medianWeightedSum(u) ==
        SumOf(measured(u), LAMBDA row : row.median_minutes * row.total_processed)
      medianCount(u) == SumOf(measured(u), LAMBDA row : row.total_processed)
      out == [j \in 1 .. Len(users) |->
                [user_id |-> users[j],
                 user_name |-> byUser(users[j])[1].user_name,
                 total_processed |->
                   SumOf(byUser(users[j]), LAMBDA row : row.total_processed),
                 avg_per_day |->
                   10 * Round(SumOf(byUser(users[j]),
                                    LAMBDA row : row.avg_per_day), 10),
                 median_minutes |->
                   IF medianCount(users[j]) > 0
                   THEN Round(medianWeightedSum(users[j]),
                              medianCount(users[j]))
                   ELSE NoValue]]
  IN StableSort(out, [j \in 1 .. Len(out) |-> 0 - out[j].total_processed])

\* position of a user name under localeCompare
NameRank(name) == IF name = "Ann" THEN 1 ELSE 2

\* the Map key `${row.user_id}|||${row.category}`
UserCatKey(row) == row.user_id \o "|||" \o row.category

aggregateCategoryByUser(data) ==
  LET keys == MapKeys([i \in 1 .. Len(data) |-> UserCatKey(data[i])])
      byUserCat(k) == SelectSeq(data, LAMBDA row : UserCatKey(row) = k)
      userTotals(u) ==
        SumOf(SelectSeq(data, LAMBDA row : row.user_id = u),
              LAMBDA row : row.count)
      v == [j \in 1 .. Len(keys) |->
              [user_id |-> byUserCat(keys[j])[1].user_id,
               user_name |-> byUserCat(keys[j])[1].user_name,
               category |-> byUserCat(keys[j])[1].category,
               count |-> SumOf(byUserCat(keys[j]), LAMBDA row : row.count)]]
      out == [j \in 1 .. Len(v) |->
                [user_id |-> v[j].user_id,
                 user_name |-> v[j].user_name,
                 category |-> v[j].category,
                 count |-> v[j].count,
                 percentage |->
                   Round(10000 * v[j].count,
                         IF userTotals(v[j].user_id) = 0 THEN 1
                         ELSE userTotals(v[j].user_id))]]
  IN StableSort(out, [j \in 1 .. Len(out) |->
                        1000 * NameRank(out[j].user_name) - out[j].count])

\* the Map key `${row.record_type}|||${row.field_identifier}`
FieldKey(row) == row.record_type \o "|||" \o row.field_identifier

aggregateFieldAccuracy(data) ==
  LET keys == MapKeys([i \in 1 .. Len(data) |-> FieldKey(data[i])])
      byField(k) == SelectSeq(data, LAMBDA row : FieldKey(row) = k)
      v == [j \in 1 .. Len(keys) |->
              [record_type |-> byField(keys[j])[1].record_type,
               field_identifier |-> byField(keys[j])[1].field_identifier,
               total_docs |->
                 SumOf(byField(keys[j]), LAMBDA row : row.total_docs),
               accurate_docs |->
                 SumOf(byField(keys[j]), LAMBDA row : row.accurate_docs)]]
      out == [j \in 1 .. Len(v) |->
                [record_type |-> v[j].record_type,
                 field_identifier |-> v[j].field_identifier,
                 total_docs |-> v[j].total_docs,
                 accurate_docs |-> v[j].accurate_docs,
                 accuracy_pct |->
                   IF v[j].total_docs > 0
                   THEN Round(10000 * v[j].accurate_docs, v[j].total_docs)
                   ELSE 0]]
  IN StableSort(out, [j \in 1 .. Len(out) |-> out[j].accuracy_pct])

aggregateAccuracyTrend(data) ==
  LET dates == MapKeys([i \in 1 .. Len(data) |-> data[i].date])
      byDate(d) == SelectSeq(data, LAMBDA row : row.date = d)
      totalDocs(d) == SumOf(byDate(d), LAMBDA row : row.total_docs)
      docsWithChanges(d) ==
        SumOf(byDate(d), LAMBDA row : row.docs_with_changes)
      out == [j \in 1 .. Len(dates) |->
                [date |-> dates[j],
                 total_docs |-> totalDocs(dates[j]),
                 docs_with_changes |-> docsWithChanges(dates[j]),
                 accuracy_pct |->
                   IF totalDocs(dates[j]) > 0
                   THEN Round(10000 * (totalDocs(dates[j])
                                        - docsWithChanges(dates[j])),
                              totalDocs(dates[j]))
                   ELSE 0]]
  IN StableSort(out, [j \in 1 .. Len(out) |-> out[j].date])

aggregateCategoryDistribution(data) ==
  LET cats == MapKeys([i \in 1 .. Len(data) |-> data[i].category])
      byCat(c) == SumOf(SelectSeq(data, LAMBDA row : row.category = c),
                        LAMBDA row : row.count)
      total == SumSeq([j \in 1 .. Len(cats) |-> byCat(cats[j])])
  IN [j \in 1 .. Len(cats) |->
        [category |-> cats[j],
         count |-> byCat(cats[j]),
         percentage |-> IF total > 0 THEN Round(10000 * byCat(cats[j]), total)
                        ELSE 0]]

\* ---------------------------------------------------------------------
\* The data a facade function reads
\* ---------------------------------------------------------------------

Dates == 1 .. 2

UserIds == {"u1", "u1|||c1"}

UserName(u) == IF u = "u1" THEN "Ann" ELSE "Bob"

Categories == {"c1", "c1|||c1"}

RecordTypes == {"r1", "r1|||f1"}

FieldIdentifiers == {"f1", "f1|||f1"}

VolumeRows == [date : Dates, count : 0 .. 2, supplier_id : SupplierIds]

CategoryRows ==
  [category : Categories, count : 1 .. 2, percentage : {0, 5000},
   supplier_id : SupplierIds]

\* the categories of a distribution with many small categories
ManyCategories == 22

\* 32 documents in ManyCategories categories: one document in each
\* category but the last, the other documents in the last
ManyCategoryRows ==
  [i \in 1 .. ManyCategories |->
     [category |-> "k" \o ToString(i),
      count |-> IF i < ManyCategories THEN 1 ELSE 32 - (ManyCategories - 1),
      percentage |-> 0, supplier_id |-> "s1"]]

TimeOfDayRows == [timestamp : 1 .. 2, supplier_id : SupplierIds]

\* avg_minutes (hundredths) and count of a cycle-time row
CycleMeasures ==
  { [avg_minutes |-> 1000, count |-> 2], [avg_minutes |-> 2000, count |-> 8],
    [avg_minutes |-> 1001, count |-> 2], [avg_minutes |-> 1000, count |-> 0] }

CycleRows ==
  { [date |-> d, avg_minutes |-> m.avg_minutes, count |-> m.count,
     supplier_id |-> s] :
      d \in Dates, m \in CycleMeasures, s \in SupplierIds }

StateRows ==
  [state : {"assigned", "pushed"}, count : 1 .. 2, supplier_id : SupplierIds]

\* total_processed, avg_per_day (thousandths), median_minutes (tenths) of a
\* productivity row
ProductivityMeasures ==
  { [total_processed |-> 1, avg_per_day |-> 1500, median_minutes |-> NoValue],
    [total_processed |-> 1, avg_per_day |-> 500, median_minutes |-> 100],
    [total_processed |-> 3, avg_per_day |-> 1254, median_minutes |-> 205],
    [total_processed |-> 0, avg_per_day |-> 0, median_minutes |-> 100] }

ProductivityRows ==
  { [user_id |-> u, user_name |-> UserName(u),
     total_processed |-> m.total_processed, avg_per_day |-> m.avg_per_day,
     median_minutes |-> m.median_minutes, supplier_id |-> s] :
      u \in UserIds, m \in ProductivityMeasures, s \in SupplierIds }

CategoryByUserRows ==
  { [user_id |-> u, user_name |-> UserName(u), category |-> c, count |-> n,
     percentage |-> p, supplier_id |-> s] :
      u \in UserIds, c \in Categories, n \in 1 .. 2, p \in {2500, 5000},
      s \in SupplierIds }

FieldMeasures ==
  { [total_docs |-> 0, accurate_docs |-> 0, accuracy_pct |-> 0],
    [total_docs |-> 3, accurate_docs |-> 2, accuracy_pct |-> 6667] }

FieldRows ==
  { [record_type |-> r, field_identifier |-> f, total_docs |-> m.total_docs,
     accurate_docs |-> m.accurate_docs, accuracy_pct |-> m.accuracy_pct,
     supplier_id |-> s] :
      r \in RecordTypes, f \in FieldIdentifiers, m \in FieldMeasures,
      s \in SupplierIds }

TrendMeasures ==
  { [total_docs |-> 0, docs_with_changes |-> 0, accuracy_pct |-> 0],
    [total_docs |-> 3, docs_with_changes |-> 1, accuracy_pct |-> 6667],
    [total_docs |-> 2, docs_with_changes |-> 2, accuracy_pct |-> 0] }

TrendRows ==
  { [date |-> d, accuracy_pct |-> m.accuracy_pct, total_docs |-> m.total_docs,
     docs_with_changes |-> m.docs_with_changes, supplier_id |-> s] :
      d \in Dates, m \in TrendMeasures, s \in SupplierIds }

SeqsUpTo(S) == UNION {[1 .. n -> S] : n \in 0 .. MaxRows}

\* a section that holds a row collection, with the scalar stored beside it
\* (overall_avg_minutes, total) or NoValue
RowSection(data, overall) ==
  [kind |-> "present", data |-> data, overall |-> overall]

\* a section the slice does not have
MissingRows == [kind |-> "missing", data |-> <<>>, overall |-> NoValue]

Pages(documents, pages, avg) ==
  [kind |-> "present", total_documents |-> documents, total_pages |-> pages,
   avg_pages_per_fax |-> avg]

MissingPages ==
  [kind |-> "missing", total_documents |-> NoValue, total_pages |-> NoValue,
   avg_pages_per_fax |-> NoValue]

DocumentLevel(total, edits, noEdits, pct) ==
  [kind |-> "present", total_ai_docs |-> total, docs_with_edits |-> edits,
   docs_no_edits |-> noEdits, accuracy_pct |-> pct]

MissingDocumentLevel ==
  [kind |-> "missing", total_ai_docs |-> NoValue, docs_with_edits |-> NoValue,
   docs_no_edits |-> NoValue, accuracy_pct |-> NoValue]

\* per_supplier of a slice without overrides
NoOverrides == [s \in SupplierIds |-> MissingRows]

RowMetrics ==
  { "volume_by_day", "categories", "time_of_day", "received_to_open",
    "processing", "state_distribution", "by_individual",
    "category_breakdown", "per_field", "trend" }

ScalarMetrics == {"pages", "document_level"}

Src(metric, section) ==
  [metric |-> metric, section |-> section, per_supplier |-> NoOverrides]

\* the sections of an organization's slice, one metric at a time; the
\* scalar stored beside an empty row collection is 0 or absent
Sources ==
  {Src(m, MissingRows) : m \in RowMetrics}
  \cup {Src("volume_by_day", RowSection(d, NoValue)) :
          d \in SeqsUpTo(VolumeRows)}
  \cup {Src("categories", RowSection(d, NoValue)) :
          d \in SeqsUpTo(CategoryRows)}
  \cup {Src("categories", RowSection(ManyCategoryRows, NoValue))}
  \cup {Src("time_of_day", RowSection(d, Len(d))) :
          d \in SeqsUpTo(TimeOfDayRows)}
  \cup {Src(m, RowSection(d, NoValue)) :
          m \in {"received_to_open", "processing"},
          d \in SeqsUpTo(CycleRows)}
  \cup {Src(m, RowSection(d, IF d = <<>> THEN 0 ELSE 1500)) :
          m \in {"received_to_open", "processing"},
          d \in SeqsUpTo(CycleRows)}
  \cup {Src("state_distribution", RowSection(d, NoValue)) :
          d \in SeqsUpTo(StateRows)}
  \cup {Src("state_distribution",
             RowSection(d, SumOf(d, LAMBDA row : row.count))) :
          d \in SeqsUpTo(StateRows)}
  \cup {Src("by_individual", RowSection(d, NoValue)) :
          d \in SeqsUpTo(ProductivityRows)}
  \cup {Src("category_breakdown", RowSection(d, NoValue)) :
          d \in SeqsUpTo(CategoryByUserRows)}
  \cup {Src("per_field", RowSection(d, NoValue)) :
          d \in SeqsUpTo(FieldRows)}
  \cup {Src("trend", RowSection(d, NoValue)) : d \in SeqsUpTo(TrendRows)}
  \cup { [metric |-> "pages", section |-> org,
          per_supplier |-> [s \in SupplierIds |->
                              IF s = "s1" THEN own ELSE MissingPages]] :
           org \in {MissingPages, Pages(5, 9, 180)},
           own \in {MissingPages, Pages(2, 3, 150), Pages(2, NoValue, NoValue)} }
  \cup { [metric |-> "document_level", section |-> org,
          per_supplier |-> [s \in SupplierIds |->
                              IF s = "s1" THEN own
                              ELSE MissingDocumentLevel]] :
           org \in {MissingDocumentLevel, DocumentLevel(10, 4, 6, 6000)},
           own \in {MissingDocumentLevel, DocumentLevel(4, 1, 3, 7500)} }

\* the bodies the backend replies with: the typed response, every scalar
\* there, no per-supplier part
LiveReplies ==
  { s \in Sources :
      /\ s.section.kind = "present"
      /\ s.metric \in {"received_to_open", "processing",
                       "state_distribution"} => s.section.overall # NoValue
      /\ s.metric = "pages" =>
           s.per_supplier = [t \in SupplierIds |-> MissingPages]
      /\ s.metric = "document_level" =>
           s.per_supplier = [t \in SupplierIds |-> MissingDocumentLevel] }

NoSource == Src("none", MissingRows)

NoResponse == [kind |-> "none"]

\* ---------------------------------------------------------------------
\* api.ts: the facade functions
\* ---------------------------------------------------------------------

\* staticData.organization?.<section>, read through the slice tag
ActiveSection(sd, missing) ==
  IF sd.organization = NULL THEN missing ELSE source.section

\* staticData.perSupplier?.[supplierId]?.<section>
Override(sd, supplierId, missing) ==
  IF sd.perSupplier = NULL \/ supplierId = NULL THEN missing
  ELSE source.per_supplier[supplierId]

\* <rows> || []
RowsOf(section) == IF section.kind = "present" THEN section.data ELSE <<>>

\* x without the ?? 0
OrUndefined(x) == x

\* x ?? 0
OrZero(x) == IF x = NoValue THEN 0 ELSE x

\* filterBySupplier over the active slice's rows
StaticRows(sd) ==
  filterBySupplier(RowsOf(ActiveSection(sd, MissingRows)),
                   sd.currentSupplierId)

fetchFaxVolumeStatic(sd) ==
  LET aggregated == aggregateVolumeByDate(StaticRows(sd))
  IN [data |-> aggregated,
      total |-> SumOf(aggregated, LAMBDA row : row.count),
      period |-> "day"]

fetchFaxVolumeLive(reply) ==
  LET aggregated == aggregateVolumeByDate(reply.data)
  IN [data |-> aggregated,
      total |-> SumOf(aggregated, LAMBDA r : r.count),
      period |-> "day"]

fetchPagesStatsStatic(sd) ==
  LET own == Override(sd, sd.currentSupplierId, MissingPages)
      p == IF own.kind = "present" THEN own
           ELSE ActiveSection(sd, MissingPages)
  IN [total_documents |-> OrZero(p.total_documents),
      total_pages |-> OrZero(p.total_pages)]

fetchPagesStatsLive(reply) ==
  [total_documents |-> reply.total_documents,
   total_pages |-> reply.total_pages,
   avg_pages_per_fax |-> reply.avg_pages_per_fax]

fetchCategoryDistributionStatic(sd) ==
  LET aggregated == aggregateCategoryDistribution(StaticRows(sd))
  IN [data |-> aggregated,
      total |-> SumOf(aggregated, LAMBDA row : row.count)]

fetchCategoryDistributionLive(reply) ==
  LET aggregated == aggregateCategoryDistribution(reply.data)
  IN [data |-> aggregated,
      total |-> SumOf(aggregated, LAMBDA r : r.count)]

fetchTimeOfDayVolumeStatic(sd) ==
  LET filtered == StaticRows(sd)
  IN [data |-> filtered, total |-> Len(filtered)]

fetchTimeOfDayVolumeLive(reply) ==
  [data |-> reply.data, total |-> reply.overall]

\* fetchReceivedToOpenTime and fetchProcessingTime, which differ in the
\* section they read and the metric_type they return
fetchCycleTimeStatic(sd, metric_type) ==
  LET section == ActiveSection(sd, MissingRows)
      aggregated == aggregateCycleTimeByDate(StaticRows(sd))
  IN [data |-> aggregated,
      overall_avg_minutes |->
        IF section.kind = "present" /\ section.overall # NoValue
        THEN section.overall ELSE computeOverallAvg(aggregated),
      metric_type |-> metric_type]

fetchCycleTimeLive(reply, metric_type) ==
  [data |-> aggregateCycleTimeByDate(reply.data),
   overall_avg_minutes |-> reply.overall,
   metric_type |-> metric_type]

fetchStateDistributionStatic(sd) ==
  LET staticResponse == ActiveSection(sd, MissingRows)
  IN IF staticResponse.kind = "present"
     THEN [data |-> staticResponse.data,
           total |-> OrZero(staticResponse.overall)]
     ELSE [data |-> <<>>, total |-> 0]

fetchStateDistributionLive(reply) ==
  [data |-> reply.data, total |-> reply.overall]

fetchProductivityByIndividualStatic(sd) ==
  LET aggregated == aggregateProductivityByUser(StaticRows(sd))
  IN [data |-> aggregated,
      total_processed |->
        SumOf(aggregated, LAMBDA r : r.total_processed),
      unique_individuals |-> Len(aggregated)]

fetchProductivityByIndividualLive(reply) ==
  LET aggregated == aggregateProductivityByUser(reply.data)
  IN [data |-> aggregated,
      total_processed |->
        SumOf(aggregated, LAMBDA r : r.total_processed),
      unique_individuals |-> Len(aggregated)]

fetchCategoryByIndividualStatic(sd) ==
  [data |-> aggregateCategoryByUser(StaticRows(sd))]

fetchCategoryByIndividualLive(reply) ==
  [data |-> aggregateCategoryByUser(reply.data)]

\* the object fetchPerFieldAccuracy builds from the rows it aggregates
PerFieldAccuracy(rows) ==
  LET aggregated == aggregateFieldAccuracy(rows)
      totalDocs == SumOf(aggregated, LAMBDA r : r.total_docs)
      totalAccurate == SumOf(aggregated, LAMBDA r : r.accurate_docs)
  IN [data |-> aggregated,
      overall_accuracy_pct |->
        IF totalDocs > 0 THEN Round(10000 * totalAccurate, totalDocs)
        ELSE 0,
      total_fields |-> Len(aggregated)]

fetchDocumentAccuracyStatic(sd) ==
  LET own == Override(sd, sd.currentSupplierId, MissingDocumentLevel)
      d == IF own.kind = "present" THEN own
           ELSE ActiveSection(sd, MissingDocumentLevel)
  IN [total_ai_docs |-> OrZero(d.total_ai_docs),
      docs_with_edits |-> OrZero(d.docs_with_edits),
      docs_no_edits |-> OrZero(d.docs_no_edits),
      accuracy_pct |-> OrZero(d.accuracy_pct)]

fetchDocumentAccuracyLive(reply) ==
  [total_ai_docs |-> reply.total_ai_docs,
   docs_with_edits |-> reply.docs_with_edits,
   docs_no_edits |-> reply.docs_no_edits,
   accuracy_pct |-> reply.accuracy_pct]

\* the object fetchAccuracyTrend builds from the rows it aggregates
AccuracyTrend(rows) ==
  LET aggregated == aggregateAccuracyTrend(rows)
      totalDocs == SumOf(aggregated, LAMBDA r : r.total_docs)
      totalChanges == SumOf(aggregated, LAMBDA r : r.docs_with_changes)
  IN [data |-> aggregated,
      overall_accuracy_pct |->
        IF totalDocs > 0
        THEN Round(10000 * (totalDocs - totalChanges), totalDocs)
        ELSE 0,
      period |-> "day"]

\* a facade function of the given metric runs: past the loader on the
\* static path, one request on the live path
Facade(fn, staticValue, liveValue) ==
  /\ STATIC_MODE => AlreadyLoaded(staticData)
  /\ response' = IF STATIC_MODE THEN staticValue ELSE liveValue
  /\ lastParams' = IF STATIC_MODE THEN lastParams ELSE buildParams(filters)
  /\ lastOp' = Op(fn, NULL)
  /\ UNCHANGED <<gateVars, source, STATIC_MODE, bundleFile, metadataFile, staticData,
                 localStorage, calls, filters, staticMetadata>>

fetchFaxVolume ==
  /\ source.metric = "volume_by_day"
  /\ Facade("fetchFaxVolume",
            fetchFaxVolumeStatic(staticData), fetchFaxVolumeLive(source.section))

fetchPagesStats ==
  /\ source.metric = "pages"
  /\ Facade("fetchPagesStats",
            fetchPagesStatsStatic(staticData), fetchPagesStatsLive(source.section))

fetchCategoryDistribution ==
  /\ source.metric = "categories"
  /\ Facade("fetchCategoryDistribution",
            fetchCategoryDistributionStatic(staticData),
            fetchCategoryDistributionLive(source.section))

fetchTimeOfDayVolume ==
  /\ source.metric = "time_of_day"
  /\ Facade("fetchTimeOfDayVolume",
            fetchTimeOfDayVolumeStatic(staticData),
            fetchTimeOfDayVolumeLive(source.section))

fetchReceivedToOpenTime ==
  /\ source.metric = "received_to_open"
  /\ Facade("fetchReceivedToOpenTime",
            fetchCycleTimeStatic(staticData, "received_to_open"),
            fetchCycleTimeLive(source.section, "received_to_open"))

fetchProcessingTime ==
  /\ source.metric = "processing"
  /\ Facade("fetchProcessingTime",
            fetchCycleTimeStatic(staticData, "processing"),
            fetchCycleTimeLive(source.section, "processing"))

fetchStateDistribution ==
  /\ source.metric = "state_distribution"
  /\ Facade("fetchStateDistribution",
            fetchStateDistributionStatic(staticData),
            fetchStateDistributionLive(source.section))

fetchProductivityByIndividual ==
  /\ source.metric = "by_individual"
  /\ Facade("fetchProductivityByIndividual",
            fetchProductivityByIndividualStatic(staticData),
            fetchProductivityByIndividualLive(source.section))

fetchCategoryByIndividual ==
  /\ source.metric = "category_breakdown"
  /\ Facade("fetchCategoryByIndividual",
            fetchCategoryByIndividualStatic(staticData),
            fetchCategoryByIndividualLive(source.section))

fetchPerFieldAccuracy ==
  /\ source.metric = "per_field"
  /\ Facade("fetchPerFieldAccuracy",
            PerFieldAccuracy(StaticRows(staticData)),
            PerFieldAccuracy(source.section.data))

fetchDocumentAccuracy ==
  /\ source.metric = "document_level"
  /\ Facade("fetchDocumentAccuracy",
            fetchDocumentAccuracyStatic(staticData),
            fetchDocumentAccuracyLive(source.section))

fetchAccuracyTrend ==
  /\ source.metric = "trend"
  /\ Facade("fetchAccuracyTrend",
            AccuracyTrend(StaticRows(staticData)),
            AccuracyTrend(source.section.data))

\* ---------------------------------------------------------------------
\* VolumeMetrics.tsx, AccuracyMetrics: the trend line of a chart
\*
\* The regression is carried in exact rational arithmetic: a fitted value
\* is a fraction in lowest terms. The weekly counts of the volume chart are
\* integers, on which the doubles of the code compute the same values.
\* ---------------------------------------------------------------------

\* longest series a chart draws a trend line through
MaxPoints == 4

\* largest weekly count of a point
MaxCount == 3

\* the guard one point short, letting a single point through
MinPointsOne == 2 - 1

\* data.length < 2
MinPoints == 2

RECURSIVE GCD(_, _)
GCD(a, b) == IF b = 0 THEN a ELSE GCD(b, a % b)

Abs(x) == IF x < 0 THEN 0 - x ELSE x

\* the number num / den; a division by zero is not a number
Quotient(num, den) ==
  IF den = 0 THEN [kind |-> "NaN", num |-> 0, den |-> 0]
  ELSE LET g == GCD(Abs(num), Abs(den))
           sign == IF den < 0 THEN 0 - 1 ELSE 1
       IN [kind |-> "number", num |-> sign * (num \div g),
           den |-> sign * (den \div g)]

\* the denominator of the slope, sum of (x - xMean)^2 over x = 0 .. n - 1,
\* times n^2
RegressionDenominator(n) ==
  LET sumX == SumSeq([i \in 1 .. n |-> i - 1])
  IN SumSeq([i \in 1 .. n |-> (n * (i - 1) - sumX) * (n * (i - 1) - sumX)])

\* "no trend"
NoTrend == [kind |-> "null", points |-> <<>>]

\* the function with a slope of 0: every fitted value is the mean
calculateLinearRegressionFlat(data, field) ==
  IF Len(data) < MinPoints THEN NoTrend
  ELSE LET n == Len(data)
           sumY == SumSeq([i \in 1 .. n |-> data[i][field]])
       IN [kind |-> "points",
           points |-> [i \in 1 .. n |->
                         [date |-> data[i].date, trend |-> Quotient(sumY, n)]]]

\* field is the measure the chart plots: count (VolumeMetrics.tsx) or
\* accuracy_pct (AccuracyMetrics). With xMean = sumX / n and yMean =
\* sumY / n, numerator and denominator are carried times n^2, so that
\* slope = numerator / denominator and
\* slope * x + intercept
\*   = (n * numerator * x + sumY * denominator - numerator * sumX)
\*     / (n * denominator)
calculateLinearRegression(data, field) ==
  IF Len(data) < MinPoints THEN NoTrend
  ELSE LET n == Len(data)
           xValues == [i \in 1 .. n |-> i - 1]
           yValues == [i \in 1 .. n |-> data[i][field]]
           sumX == SumSeq(xValues)
           sumY == SumSeq(yValues)
           numerator ==
             SumSeq([i \in 1 .. n |->
                       (n * xValues[i] - sumX) * (n * yValues[i] - sumY)])
           denominator == RegressionDenominator(n)
       IN [kind |-> "points",
           points |->
             [i \in 1 .. n |->
                [date |-> data[i].date,
                 trend |-> Quotient(n * numerator * xValues[i]
                                      + sumY * denominator - numerator * sumX,
                                    n * denominator)]]]

\* the weekly volume series and the weekly accuracy series, ascending by
\* date as the facade returns them
VolumePoints ==
  UNION { [1 .. n -> 0 .. MaxCount] : n \in 0 .. MaxPoints }

AccuracyPoints ==
  UNION { [1 .. n -> {0, 3333, 10000}] : n \in 0 .. MaxPoints }

TrendInputs ==
  { Src("volume_trend",
        RowSection([i \in 1 .. Len(ys) |-> [date |-> i, count |-> ys[i]]],
                   NoValue)) : ys \in VolumePoints }
  \cup
  { Src("field_trend",
        RowSection([i \in 1 .. Len(ys) |->
                      [date |-> i, accuracy_pct |-> ys[i]]],
                   NoValue)) : ys \in AccuracyPoints }

\* chartData of VolumeMetrics: the trend line through the weekly counts
VolumeTrendLine ==
  /\ source.metric = "volume_trend"
  /\ response' = calculateLinearRegression(source.section.data, "count")
  /\ lastOp' = Op("calculateLinearRegression", NULL)
  /\ UNCHANGED <<gateVars, source, STATIC_MODE, bundleFile, metadataFile, staticData,
                 localStorage, calls, filters, staticMetadata, lastParams>>

\* chartData of AccuracyMetrics: the trend line through the weekly
\* accuracy percentages
AccuracyTrendLine ==
  /\ source.metric = "field_trend"
  /\ response' = calculateLinearRegression(source.section.data,
                                           "accuracy_pct")
  /\ lastOp' = Op("calculateLinearRegression", NULL)
  /\ UNCHANGED <<gateVars, source, STATIC_MODE, bundleFile, metadataFile, staticData,
                 localStorage, calls, filters, staticMetadata, lastParams>>

\* ---------------------------------------------------------------------
\* App.tsx, PasswordGate.tsx: the password gate of a static build
\* ---------------------------------------------------------------------

\* sessionStorage holds nothing under dashboard_unlocked
NoFlag == "unset"

\* typeof sessionStorage === 'undefined'
NoSessionStorage == "undefined"

\* what the user can type into the password field
Typed == {"", "pw", "PW", "pw "}

\* getDashboardUnlocked taking whatever getItem returns, null included, as
\* unlocked
getDashboardUnlockedAnyValue == sessionStorage # NoSessionStorage

getDashboardUnlocked ==
  IF sessionStorage = NoSessionStorage THEN FALSE
  ELSE sessionStorage = "true"

showGate == STATIC_MODE /\ DASHBOARD_PASSWORD # ""

isUnlocked == unlocked \/ (showGate /\ getDashboardUnlocked)

\* what App renders; reading sessionStorage throws in a document that is
\* denied access to storage
App ==
  IF showGate /\ ~unlocked /\ sessionStorage = Denied THEN "throws"
  ELSE IF showGate /\ ~isUnlocked THEN "PasswordGate"
  ELSE "Dashboard"

NoGate == [value |-> "", error |-> ""]

\* the page is loaded again in the same tab: component state starts over,
\* the session's storage stays
Mount ==
  /\ unlocked' = FALSE
  /\ gate' = NoGate
  /\ lastOp' = Op("mount", NULL)
  /\ UNCHANGED <<metricVars, DASHBOARD_PASSWORD, sessionStorage, submitted,
                 STATIC_MODE, bundleFile, metadataFile, staticData,
                 localStorage, calls, filters, staticMetadata, lastParams>>

\* onChange of the password field
handleChange(typed) ==
  /\ App = "PasswordGate"
  /\ gate' = [gate EXCEPT !.value = typed]
  /\ lastOp' = Op("handleChange", typed)
  /\ UNCHANGED <<metricVars, DASHBOARD_PASSWORD, sessionStorage, unlocked,
                 submitted, STATIC_MODE, bundleFile, metadataFile, staticData,
                 localStorage, calls, filters, staticMetadata, lastParams>>

\* setDashboardUnlocked; writeOk is whether sessionStorage.setItem returns
\* instead of throwing
setDashboardUnlocked(writeOk) ==
  sessionStorage' = IF sessionStorage # NoSessionStorage /\ writeOk
                    THEN "true" ELSE sessionStorage

\* handleSubmit of the PasswordGate; a setItem that throws leaves the
\* handler before onUnlock
handleSubmit(writeOk) ==
  /\ App = "PasswordGate"
  /\ submitted' = submitted \cup {gate.value}
  /\ IF gate.value = DASHBOARD_PASSWORD
     THEN /\ setDashboardUnlocked(writeOk)
          /\ unlocked' = (writeOk \/ sessionStorage = NoSessionStorage)
          /\ gate' = [gate EXCEPT !.error = ""]
     ELSE /\ gate' = [gate EXCEPT !.error = "Incorrect password"]
          /\ UNCHANGED <<sessionStorage, unlocked>>
  /\ lastOp' = Op("handleSubmit", gate.value)
  /\ UNCHANGED <<metricVars, DASHBOARD_PASSWORD, STATIC_MODE, bundleFile,
                 metadataFile, staticData, localStorage, calls, filters,
                 staticMetadata, lastParams>>

\* a build without a password, before App has mounted
GateIdle ==
  /\ DASHBOARD_PASSWORD = ""
  /\ sessionStorage = NoFlag
  /\ unlocked = FALSE
  /\ gate = NoGate
  /\ submitted = {}

InitCommon ==
  /\ GateIdle
  /\ source = NoSource
  /\ response = NoResponse
  /\ staticData = InitStaticData
  /\ calls = [c \in Calls |-> IdleCall]
  /\ filters = InitFilters
  /\ staticMetadata = UnsetMetadata
  /\ lastParams = NoParams
  /\ lastOp = Op("init", NULL)

\* ---------------------------------------------------------------------
\* Static mode: the loader under concurrent facade calls and explicit
\* organization switches
\* ---------------------------------------------------------------------

Init ==
  /\ STATIC_MODE = TRUE
  /\ \E e \in Exports :
        /\ bundleFile = e.bundle
        /\ metadataFile = e.metadata
        /\ localStorage = e.saved
  /\ InitCommon

Next ==
  \/ \E c \in Calls : FacadeCall(c)
  \/ \E c \in Calls, out \in GzOutcomes : GzResponse(c, out)
  \/ \E c \in Calls, out \in JsonOutcomes : JsonResponse(c, out)
  \/ \E c \in Calls, out \in MetaOutcomes : MetaResponse(c, out)
  \/ \E orgId \in OrgIds \cup {NULL}, writeOk \in BOOLEAN :
        SwitchOrganization(orgId, writeOk)

Spec == Init /\ [][Next]_vars

\* ---------------------------------------------------------------------
\* Static mode: the filter bar over a multi-organization export
\* ---------------------------------------------------------------------

InitBar ==
  /\ STATIC_MODE = TRUE
  /\ bundleFile = [kind |-> "multi", by_org |-> {"o1", "o2"}]
  /\ metadataFile \in {m \in MetadataValues : Len(m.organizations) > 1}
  /\ localStorage \in SavedOrgIds
  /\ InitCommon

NextBar ==
  \/ FacadeCall(BarCall)
  \/ \E out \in GzOutcomes : GzResponse(BarCall, out)
  \/ \E out \in JsonOutcomes : JsonResponse(BarCall, out)
  \/ \E out \in MetaOutcomes : MetaResponse(BarCall, out)
  \/ \E value \in OrgIds \cup {NULL} : handleOrganizationChange(value)
  \/ \E value \in SupplierIds \cup {NULL} : handleSupplierChange(value)
  \/ handleAiToggle
  \/ \E value \in OrgIds, writeOk \in BOOLEAN :
        handleStaticOrgChange(value, writeOk)
  \/ \E value \in SupplierIds \cup {NULL} : handleStaticSupplierChange(value)

SpecBar == InitBar /\ [][NextBar]_vars

\* ---------------------------------------------------------------------
\* Live mode: the filter bar and the requests it parameterizes
\* ---------------------------------------------------------------------

InitLive ==
  /\ STATIC_MODE = FALSE
  /\ bundleFile = [kind |-> "null", by_org |-> {}]
  /\ metadataFile = [kind |-> "object", organizations |-> <<>>]
  /\ localStorage = NULL
  /\ InitCommon

NextLive ==
  \/ \E value \in OrgIds \cup {NULL} : handleOrganizationChange(value)
  \/ \E value \in SupplierIds \cup {NULL} : handleSupplierChange(value)
  \/ handleAiToggle
  \/ LiveRequest

SpecLive == InitLive /\ [][NextLive]_vars

\* ---------------------------------------------------------------------
\* The facade's metric functions, over a loaded cache (static) or the
\* backend's reply (live)
\* ---------------------------------------------------------------------

\* the export behind a loaded cache: one organization in the bundle,
\* listed first or second in the roster
FacadeRosters ==
  {m \in MetadataValues : Len(m.organizations) > 1}

InitFacade ==
  /\ STATIC_MODE \in BOOLEAN
  /\ bundleFile = [kind |-> "multi", by_org |-> {"o1"}]
  /\ metadataFile \in
       IF STATIC_MODE THEN FacadeRosters
       ELSE {[kind |-> "object", organizations |-> <<>>]}
  /\ localStorage = NULL
  /\ \E supplierId \in IF STATIC_MODE THEN SupplierIds \cup {NULL}
                       ELSE {NULL} :
       staticData =
         IF STATIC_MODE
         THEN [LoadAssign(InitStaticData, bundleFile, metadataFile,
                          localStorage)
                 EXCEPT !.currentSupplierId = supplierId]
         ELSE InitStaticData
  /\ source \in IF STATIC_MODE THEN Sources ELSE LiveReplies
  /\ response = NoResponse
  /\ GateIdle
  /\ calls = [c \in Calls |-> IdleCall]
  /\ filters = InitFilters
  /\ staticMetadata = UnsetMetadata
  /\ lastParams = NoParams
  /\ lastOp = Op("init", NULL)

NextFacade ==
  \/ fetchFaxVolume
  \/ fetchPagesStats
  \/ fetchCategoryDistribution
  \/ fetchTimeOfDayVolume
  \/ fetchReceivedToOpenTime
  \/ fetchProcessingTime
  \/ fetchStateDistribution
  \/ fetchProductivityByIndividual
  \/ fetchCategoryByIndividual
  \/ fetchPerFieldAccuracy
  \/ fetchDocumentAccuracy
  \/ fetchAccuracyTrend

SpecFacade == InitFacade /\ [][NextFacade]_vars

\* ---------------------------------------------------------------------
\* The trend lines of the volume and accuracy charts
\* ---------------------------------------------------------------------

InitTrend ==
  /\ STATIC_MODE \in BOOLEAN
  /\ bundleFile = [kind |-> "null", by_org |-> {}]
  /\ metadataFile = [kind |-> "object", organizations |-> <<>>]
  /\ localStorage = NULL
  /\ source \in TrendInputs
  /\ response = NoResponse
  /\ GateIdle
  /\ staticData = InitStaticData
  /\ calls = [c \in Calls |-> IdleCall]
  /\ filters = InitFilters
  /\ staticMetadata = UnsetMetadata
  /\ lastParams = NoParams
  /\ lastOp = Op("init", NULL)

NextTrend ==
  \/ VolumeTrendLine
  \/ AccuracyTrendLine

SpecTrend == InitTrend /\ [][NextTrend]_vars

\* ---------------------------------------------------------------------
\* The password gate over page loads of one browser session
\* ---------------------------------------------------------------------

InitGate ==
  /\ STATIC_MODE \in BOOLEAN
  /\ DASHBOARD_PASSWORD \in {"", "pw"}
  /\ sessionStorage \in {NoFlag, NoSessionStorage, Denied}
  /\ unlocked = FALSE
  /\ gate = NoGate
  /\ submitted = {}
  /\ bundleFile = [kind |-> "null", by_org |-> {}]
  /\ metadataFile = [kind |-> "object", organizations |-> <<>>]
  /\ localStorage = NULL
  /\ source = NoSource
  /\ response = NoResponse
  /\ staticData = InitStaticData
  /\ calls = [c \in Calls |-> IdleCall]
  /\ filters = InitFilters
  /\ staticMetadata = UnsetMetadata
  /\ lastParams = NoParams
  /\ lastOp = Op("init", NULL)

NextGate ==
  \/ Mount
  \/ \E typed \in Typed : handleChange(typed)
  \/ \E writeOk \in BOOLEAN : handleSubmit(writeOk)

SpecGate == InitGate /\ [][NextGate]_vars

\* ---------------------------------------------------------------------
\* Properties
\* ---------------------------------------------------------------------

\* call c went through a load of its own and the load completed without
\* an error
LoadCompleted(c) ==
  /\ calls[c].pc = "done"
  /\ calls[c].gz # "none"
  /\ calls[c].result \in {"data", "empty"}

\* the step completes the load of call c without an error
CompletesLoad(c) ==
  /\ calls[c].pc = "awaiting"
  /\ calls'[c].pc = "done"
  /\ calls'[c].result # "rejected"

\* the three slice fields and the active id all name organization o
ActiveSliceIs(sd, o) ==
  /\ sd.organization = o
  /\ sd.suppliers = o
  /\ sd.perSupplier = o
  /\ sd.currentOrganizationId = o

\* C1: once one load has completed without an error, a facade call that
\* starts later issues no fetch of the bundle or of the metadata, and an
\* organization switch issues none either.
NoFetchAfterLoad ==
  [][ (\E d \in Calls : LoadCompleted(d)) =>
        \A c \in Calls :
          calls[c].pc = "idle" =>
            /\ calls'[c].gz = "none"
            /\ calls'[c].json = "none"
            /\ calls'[c].meta = "none" ]_vars

\* C2: while every facade call that has started is still waiting for its
\* load (so all of them started before the first load completed), at most
\* one fetch of the bundle has been issued.
SingleBundleFetch ==
  (\A c \in Calls : calls[c].pc \in {"idle", "awaiting"}) =>
    Cardinality({c \in Calls : calls[c].gz # "none"}) <= 1

\* C3: a load attempt that ends in an error leaves every field of the
\* cache as it was before the attempt ended.
AllOrNothingCache ==
  [][ \A c \in Calls :
        (calls[c].pc = "awaiting" /\ calls'[c].result = "rejected") =>
          staticData' = staticData ]_vars

\* neither bundle URL could be fetched by call c: the .gz request and then
\* the .json request found no file
NeitherFetchable(c) ==
  /\ calls[c].gz = "missing"
  /\ calls[c].json = "missing"

\* C4: a facade call whose load could fetch neither the compressed nor the
\* uncompressed bundle ends rejected, never with an empty or any other
\* response.
UnfetchableBundleRejects ==
  \A c \in Calls :
    (calls[c].pc = "done" /\ NeitherFetchable(c)) =>
      calls[c].result = "rejected"

UnfetchableBundleRejectsWitness ==
  \E c \in Calls :
    /\ calls[c].pc = "done"
    /\ calls[c].gz = "missing"
    /\ calls[c].json = "missing"
    /\ calls[c].meta = "ok"
    /\ calls[c].result = "rejected"

\* C5: a facade call whose load fetched and parsed a bundle that has
\* neither by_org nor organization ends rejected.
ShapeValidated ==
  \A c \in Calls :
    ( /\ calls[c].pc = "done"
      /\ fetchDashboardJson(calls[c].gz, calls[c].json) = "value"
      /\ calls[c].meta = "ok"
      /\ bundleFile.kind = "shapeless" ) =>
      calls[c].result = "rejected"

\* the first id of the metadata roster, NULL for an empty or absent roster
FirstListed(metadata) ==
  IF Truthy(metadata) /\ Len(metadata.organizations) > 0
  THEN metadata.organizations[1]
  ELSE NULL

\* the persisted id if it is a key of by_org, else the first id listed
PreferredOrg ==
  IF localStorage # NULL /\ HasOrg(bundleFile, localStorage)
  THEN localStorage
  ELSE FirstListed(metadataFile)

\* C6 as claimed: when a load of a by_org bundle completes, the active
\* organization is the persisted id if it is a key of by_org, else the
\* first organization listed in the metadata.
ActiveOrgAfterLoadAsClaimed ==
  [][ \A c \in Calls :
        (CompletesLoad(c) /\ bundleFile.kind = "multi") =>
          staticData'.currentOrganizationId = PreferredOrg ]_vars

\* C6 amended: when a load of a by_org bundle completes, the active slice
\* is that of the persisted id if it is a key of by_org; otherwise that of
\* the first listed organization if it is a key of by_org; otherwise the
\* load leaves the active slice and id as they were.
ActiveOrgAfterLoad ==
  [][ \A c \in Calls :
        (CompletesLoad(c) /\ bundleFile.kind = "multi") =>
          IF HasOrg(bundleFile, PreferredOrg)
          THEN ActiveSliceIs(staticData', PreferredOrg)
          ELSE /\ staticData'.currentOrganizationId =
                    staticData.currentOrganizationId
               /\ staticData'.organization = staticData.organization
               /\ staticData'.suppliers = staticData.suppliers
               /\ staticData'.perSupplier = staticData.perSupplier ]_vars

\* a load has just completed and chose the persisted organization over the
\* first one listed
ActiveOrgAfterLoadWitness ==
  /\ lastOp.op = "loader"
  /\ \E c \in Calls : LoadCompleted(c)
  /\ bundleFile.kind = "multi"
  /\ localStorage = "o2"
  /\ FirstListed(metadataFile) = "o1"
  /\ ActiveSliceIs(staticData, "o2")

OnlyExplicitSwitchChangesOrg ==
  [][ (staticData.organization \in OrgIds
       /\ lastOp'.op # "setStaticOrganizationId") =>
        /\ staticData'.currentOrganizationId =
             staticData.currentOrganizationId
        /\ staticData'.organization = staticData.organization ]_vars

StaticSupplierSingleSource ==
  lastOp.op \in {"handleStaticOrgChange", "handleStaticSupplierChange"} =>
    staticData.currentSupplierId = filters.supplierId

\* ---------------------------------------------------------------------
\* The facade's static path and the supplier filter
\* ---------------------------------------------------------------------

\* the facade functions that return a row collection
RowFacadeFns ==
  { "fetchFaxVolume", "fetchCategoryDistribution", "fetchTimeOfDayVolume",
    "fetchReceivedToOpenTime", "fetchProcessingTime",
    "fetchStateDistribution", "fetchProductivityByIndividual",
    "fetchCategoryByIndividual", "fetchPerFieldAccuracy",
    "fetchAccuracyTrend" }

\* the rows of the metric in the active organization's slice
ActiveRows ==
  IF staticData.organization = NULL THEN <<>> ELSE RowsOf(source.section)

\* the rows the claim lets a response draw on: the active supplier's, or
\* all when none is selected
SelectedRows ==
  SelectSeq(ActiveRows,
            LAMBDA r : staticData.currentSupplierId \in {NULL, r.supplier_id})

\* what one row adds to the documents a response accounts for
Weight(r) ==
  CASE source.metric \in {"by_individual"} -> r.total_processed
    [] source.metric \in {"per_field", "trend"} -> r.total_docs
    [] source.metric = "time_of_day" -> 1
    [] OTHER -> r.count

\* C11: in static mode a row-collection facade function accounts for
\* exactly the documents of the rows of the active supplier (of all rows of
\* the active organization when no supplier is selected): the weights of
\* its response rows add up to the weights of those snapshot rows.
SupplierFilterApplied ==
  (STATIC_MODE /\ lastOp.op \in RowFacadeFns) =>
    SumOf(response.data, Weight) = SumOf(SelectedRows, Weight)

\* the override of the active supplier, or the section a response without
\* data corresponds to
OverrideOfActiveSupplier ==
  IF staticData.perSupplier = NULL
  THEN IF source.metric = "pages" THEN MissingPages
       ELSE MissingDocumentLevel
  ELSE source.per_supplier[staticData.currentSupplierId]

\* the organization-wide aggregate of the active slice
OrganizationAggregate ==
  IF staticData.organization = NULL
  THEN IF source.metric = "pages" THEN MissingPages
       ELSE MissingDocumentLevel
  ELSE source.section

\* C12: in static mode fetchPagesStats and fetchDocumentAccuracy return the
\* values of the active supplier's override whenever a supplier is active
\* (zeros where that override has no value), and the organization-wide
\* aggregate only when no supplier is active.
OverrideWheneverSupplierActive ==
  (STATIC_MODE /\ lastOp.op \in {"fetchPagesStats", "fetchDocumentAccuracy"})
  => LET chosen == IF staticData.currentSupplierId = NULL
                   THEN OrganizationAggregate
                   ELSE OverrideOfActiveSupplier
     IN \A f \in DOMAIN response :
          response[f] = IF chosen[f] = NoValue THEN 0 ELSE chosen[f]

\* C13: in both modes every scalar rollup of a response follows from the
\* rows of that response: total is the sum of their counts,
\* total_processed the sum of their total_processed, unique_individuals and
\* total_fields their number, overall_accuracy_pct the ratio of their summed
\* accurate (unchanged) documents to their summed documents, and the
\* cycle-time overall_avg_minutes their count-weighted mean.
RollupsFromOwnRows ==
  LET d == response.data
      docs == SumOf(d, LAMBDA r : r.total_docs)
      counts == SumOf(d, LAMBDA r : r.count)
  IN CASE lastOp.op \in {"fetchFaxVolume", "fetchCategoryDistribution",
                         "fetchStateDistribution"} ->
            response.total = counts
       [] lastOp.op = "fetchProductivityByIndividual" ->
            /\ response.total_processed
                 = SumOf(d, LAMBDA r : r.total_processed)
            /\ response.unique_individuals = Len(d)
       [] lastOp.op = "fetchPerFieldAccuracy" ->
            /\ response.total_fields = Len(d)
            /\ response.overall_accuracy_pct =
                 IF docs = 0 THEN 0
                 ELSE Round(10000 * SumOf(d, LAMBDA r : r.accurate_docs),
                            docs)
       [] lastOp.op = "fetchAccuracyTrend" ->
            response.overall_accuracy_pct =
              IF docs = 0 THEN 0
              ELSE Round(10000 * (docs
                                  - SumOf(d, LAMBDA r : r.docs_with_changes)),
                         docs)
       [] lastOp.op \in {"fetchReceivedToOpenTime", "fetchProcessingTime"} ->
            response.overall_avg_minutes =
              IF counts = 0 THEN 0
              ELSE Round(SumOf(d, LAMBDA r : r.avg_minutes * r.count), counts)
       [] OTHER -> TRUE

\* the active slice has no data for the metric: no active slice, no such
\* section, an empty row collection; for the single-number metrics, no
\* override of the active supplier either
NoDataForMetric ==
  /\ \/ staticData.organization = NULL
     \/ source.section.kind = "missing"
     \/ source.metric \in RowMetrics /\ source.section.data = <<>>
  /\ source.metric \in ScalarMetrics =>
       \/ staticData.currentSupplierId = NULL
       \/ OverrideOfActiveSupplier.kind = "missing"

ResponseFields(fn) ==
  CASE fn = "fetchFaxVolume" -> {"data", "total", "period"}
    [] fn = "fetchTimeOfDayVolume" -> {"data", "total"}
    [] fn = "fetchCategoryDistribution" -> {"data", "total"}
    [] fn = "fetchPagesStats" ->
         {"total_documents", "total_pages", "avg_pages_per_fax"}
    [] fn \in {"fetchReceivedToOpenTime", "fetchProcessingTime"} ->
         {"data", "overall_avg_minutes", "metric_type"}
    [] fn = "fetchProductivityByIndividual" ->
         {"data", "total_processed", "unique_individuals"}
    [] fn = "fetchCategoryByIndividual" -> {"data"}
    [] fn = "fetchPerFieldAccuracy" ->
         {"data", "overall_accuracy_pct", "total_fields"}
    [] fn = "fetchDocumentAccuracy" ->
         {"total_ai_docs", "docs_with_edits", "docs_no_edits", "accuracy_pct"}
    [] fn = "fetchAccuracyTrend" ->
         {"data", "overall_accuracy_pct", "period"}

\* the facade functions whose response type types.ts declares
TypedFacadeFns == (RowFacadeFns \ {"fetchStateDistribution"})
                  \cup {"fetchPagesStats", "fetchDocumentAccuracy"}

\* C15: the object a facade function returns on the static path has
\* exactly the field names of the response type of its metric, the type
\* the live path returns.
SameFieldNames ==
  (STATIC_MODE /\ lastOp.op \in TypedFacadeFns) =>
    DOMAIN response = ResponseFields(lastOp.op)

\* ---------------------------------------------------------------------
\* The aggregation functions, through the facade functions that apply them
\* ---------------------------------------------------------------------

\* the facade functions that aggregate their rows
AggregatingFns ==
  RowFacadeFns \ {"fetchTimeOfDayVolume", "fetchStateDistribution"}

CycleTimeFns == {"fetchReceivedToOpenTime", "fetchProcessingTime"}

\* the rows handed to the aggregation function
AggregationInput ==
  IF STATIC_MODE THEN StaticRows(staticData) ELSE source.section.data

\* the grouping key of a row of the metric
KeyOf(row) ==
  CASE source.metric = "categories" -> <<row.category>>
    [] source.metric = "by_individual" -> <<row.user_id>>
    [] source.metric = "category_breakdown" -> <<row.user_id, row.category>>
    [] source.metric = "per_field" ->
         <<row.record_type, row.field_identifier>>
    [] OTHER -> <<row.date>>

KeysOf(rows) == {KeyOf(rows[i]) : i \in 1 .. Len(rows)}

\* the rows with grouping key k
RowsWithKey(rows, k) == SelectSeq(rows, LAMBDA r : KeyOf(r) = k)

\* C16: the grouping keys of an aggregation's output are exactly the
\* distinct grouping keys of its input, one output row per key.
GroupingKeysExact ==
  lastOp.op \in AggregatingFns =>
    /\ KeysOf(response.data) = KeysOf(AggregationInput)
    /\ Len(response.data) = Cardinality(KeysOf(AggregationInput))

\* the count-like measures of the metric's rows that aggregate by sum
SumMeasures ==
  CASE source.metric = "by_individual" -> {"total_processed"}
    [] source.metric = "per_field" -> {"total_docs", "accurate_docs"}
    [] source.metric = "trend" -> {"total_docs", "docs_with_changes"}
    [] OTHER -> {"count"}

\* C17: for each count-like measure the aggregated rows add up to what
\* the input rows add up to, each output row carries the sum over the
\* input rows of its key, and the facade's total is that sum.
SumRule ==
  lastOp.op \in AggregatingFns \ CycleTimeFns =>
    /\ \A f \in SumMeasures :
         /\ SumOf(response.data, LAMBDA r : r[f])
              = SumOf(AggregationInput, LAMBDA r : r[f])
         /\ \A j \in 1 .. Len(response.data) :
              response.data[j][f] =
                SumOf(RowsWithKey(AggregationInput, KeyOf(response.data[j])),
                      LAMBDA r : r[f])
    /\ lastOp.op \in {"fetchFaxVolume", "fetchCategoryDistribution"} =>
         response.total = SumOf(AggregationInput, LAMBDA r : r.count)
    /\ lastOp.op = "fetchProductivityByIndividual" =>
         response.total_processed
           = SumOf(AggregationInput, LAMBDA r : r.total_processed)

\* v is num / den rounded to the nearest integer, halves upwards
IsRounded(v, num, den) ==
  /\ 2 * (v * den - num) <= den
  /\ 2 * (v * den - num) > 0 - den

MedianWeight(user_id) ==
  SumOf(SelectSeq(AggregationInput,
                  LAMBDA r : r.user_id = user_id
                             /\ r.median_minutes # NoValue),
        LAMBDA r : r.total_processed)

\* the weighted means that are 0 at a total weight of 0: the cycle-time
\* average of a date, the overall average when it is computed from the
\* rows, the accuracy percentages
ZeroAtZeroWeight ==
  /\ lastOp.op \in CycleTimeFns =>
       /\ \A j \in 1 .. Len(response.data) :
            response.data[j].count = 0 => response.data[j].avg_minutes = 0
       /\ (/\ STATIC_MODE
           /\ ~(staticData.organization # NULL
                /\ source.section.overall # NoValue)
           /\ SumOf(response.data, LAMBDA r : r.count) = 0)
          => response.overall_avg_minutes = 0
  /\ lastOp.op \in {"fetchPerFieldAccuracy", "fetchAccuracyTrend"} =>
       /\ \A j \in 1 .. Len(response.data) :
            response.data[j].total_docs = 0 =>
              response.data[j].accuracy_pct = 0
       /\ SumOf(response.data, LAMBDA r : r.total_docs) = 0
            => response.overall_accuracy_pct = 0

SameWeight(rows) ==
  \A i \in 1 .. Len(rows) : rows[i].count = rows[1].count

PercentagesSumTo100 ==
  lastOp.op = "fetchCategoryDistribution" =>
    LET sum == SumOf(response.data, LAMBDA r : r.percentage)
    IN IF AggregationInput = <<>> THEN response.data = <<>>
       ELSE sum >= 10000 - 10 /\ sum <= 10000 + 10

\* C22: in the category distribution and the category-by-user
\* distribution every output row's percentage is the summed count of its
\* key over the sum of all output rows' counts, times 100 and rounded to 2
\* decimals, whatever percentages the input rows carry.
RederivedPercentage ==
  lastOp.op \in {"fetchCategoryDistribution", "fetchCategoryByIndividual"} =>
    LET total == SumOf(response.data, LAMBDA r : r.count)
    IN \A j \in 1 .. Len(response.data) :
         response.data[j].percentage =
           Round(10000 * SumOf(RowsWithKey(AggregationInput,
                                           KeyOf(response.data[j])),
                               LAMBDA r : r.count),
                 total)

\* the same with the denominator the code uses for the category-by-user
\* rows, the summed count of the row's user, on inputs whose keys do not
\* collide
RederivedPercentagePerUser ==
  (/\ lastOp.op \in {"fetchCategoryDistribution", "fetchCategoryByIndividual"}
   /\ Len(response.data) = Cardinality(KeysOf(AggregationInput))) =>
    \A j \in 1 .. Len(response.data) :
      LET row == response.data[j]
          total ==
            IF lastOp.op = "fetchCategoryDistribution"
            THEN SumOf(AggregationInput, LAMBDA r : r.count)
            ELSE SumOf(SelectSeq(AggregationInput,
                                 LAMBDA r : r.user_id = row.user_id),
                       LAMBDA r : r.count)
      IN row.percentage =
           Round(10000 * SumOf(RowsWithKey(AggregationInput, KeyOf(row)),
                               LAMBDA r : r.count),
                 total)

\* the rows of a user, and those of them that carry a median
RowsOfUser(user_id) ==
  SelectSeq(AggregationInput, LAMBDA r : r.user_id = user_id)

MeasuredRowsOfUser(user_id) ==
  SelectSeq(RowsOfUser(user_id), LAMBDA r : r.median_minutes # NoValue)

\* C23 as stated: for each user total_processed and avg_per_day are the
\* sums over the user's rows, and median_minutes is exactly the
\* total_processed-weighted mean of the rows that carry a median.
ProductivityAggregationAsClaimed ==
  lastOp.op = "fetchProductivityByIndividual" =>
    \A j \in 1 .. Len(response.data) :
      LET out == response.data[j]
          rows == RowsOfUser(out.user_id)
          measured == MeasuredRowsOfUser(out.user_id)
      IN /\ out.total_processed = SumOf(rows, LAMBDA r : r.total_processed)
         /\ out.avg_per_day = SumOf(rows, LAMBDA r : r.avg_per_day)
         /\ out.median_minutes * MedianWeight(out.user_id)
              = SumOf(measured,
                      LAMBDA r : r.median_minutes * r.total_processed)

\* C23: for each user total_processed is the sum over the user's rows,
\* avg_per_day that sum rounded to 2 decimals, and median_minutes the
\* total_processed-weighted mean of the rows that carry a median, rounded
\* to 1 decimal, or absent when those rows have no weight; a row without
\* a median counts towards total_processed and avg_per_day only.
ProductivityAggregation ==
  lastOp.op = "fetchProductivityByIndividual" =>
    /\ {response.data[j].user_id : j \in 1 .. Len(response.data)}
         = {AggregationInput[i].user_id : i \in 1 .. Len(AggregationInput)}
    /\ \A j \in 1 .. Len(response.data) :
         LET out == response.data[j]
             rows == RowsOfUser(out.user_id)
             measured == MeasuredRowsOfUser(out.user_id)
         IN /\ out.total_processed
                 = SumOf(rows, LAMBDA r : r.total_processed)
            /\ out.avg_per_day % 10 = 0
            /\ IsRounded(out.avg_per_day \div 10,
                         SumOf(rows, LAMBDA r : r.avg_per_day), 10)
            /\ IF MedianWeight(out.user_id) = 0
               THEN out.median_minutes = NoValue
               ELSE IsRounded(out.median_minutes,
                              SumOf(measured,
                                    LAMBDA r : r.median_minutes
                                               * r.total_processed),
                              MedianWeight(out.user_id))

\* a user with one row without a median and one row of 3 documents at
\* 20.5 minutes came out with 4 documents, 2.75 per day (1.5 + 1.254) and
\* a median of 20.5
ProductivityAggregationWitness ==
  /\ lastOp.op = "fetchProductivityByIndividual"
  /\ Len(AggregationInput) = 2
  /\ AggregationInput[1].user_id = AggregationInput[2].user_id
  /\ {AggregationInput[i].median_minutes : i \in 1 .. 2} = {NoValue, 205}
  /\ Len(response.data) = 1
  /\ response.data[1].total_processed = 4
  /\ response.data[1].avg_per_day = 2750
  /\ response.data[1].median_minutes = 205

\* the facade functions that return a time series
TimeSeriesFns ==
  {"fetchFaxVolume", "fetchAccuracyTrend"} \cup CycleTimeFns

\* C24: the aggregated time series (volume, cycle time, accuracy trend) are
\* strictly ascending by date, the productivity rows non-increasing in
\* total_processed, the per-field accuracy rows non-decreasing in
\* accuracy_pct.
OutputOrdering ==
  LET d == response.data
  IN /\ lastOp.op \in TimeSeriesFns =>
          \A j \in 1 .. Len(d) - 1 : d[j].date < d[j + 1].date
     /\ lastOp.op = "fetchProductivityByIndividual" =>
          \A j \in 1 .. Len(d) - 1 :
            d[j].total_processed >= d[j + 1].total_processed
     /\ lastOp.op = "fetchPerFieldAccuracy" =>
          \A j \in 1 .. Len(d) - 1 :
            d[j].accuracy_pct <= d[j + 1].accuracy_pct

\* productivity rows that came in with the smaller total first came out
\* with the larger total first
OutputOrderingWitness ==
  /\ lastOp.op = "fetchProductivityByIndividual"
  /\ Len(AggregationInput) = 2
  /\ AggregationInput[1].total_processed < AggregationInput[2].total_processed
  /\ Len(response.data) = 2
  /\ response.data[1].user_id = AggregationInput[2].user_id
  /\ response.data[1].total_processed > response.data[2].total_processed

\* ---------------------------------------------------------------------
\* The trend estimator
\* ---------------------------------------------------------------------

\* the series handed to calculateLinearRegression
TrendInput == source.section.data

\* C25: calculateLinearRegression returns null exactly for the inputs of
\* fewer than 2 points; for n >= 2 points the slope's denominator is
\* strictly positive, every fitted value is a number, and the result has
\* exactly n points carrying the input's dates in the input's order.
TrendDefinedFromTwoPoints ==
  lastOp.op = "calculateLinearRegression" =>
    LET n == Len(TrendInput)
    IN /\ response.kind = "null" <=> n < 2
       /\ n >= 2 =>
            /\ RegressionDenominator(n) > 0
            /\ Len(response.points) = n
            /\ \A i \in 1 .. n :
                 /\ response.points[i].date = TrendInput[i].date
                 /\ response.points[i].trend.kind = "number"

\* a series of a single point got no trend
TrendDefinedFromTwoPointsWitness ==
  /\ lastOp.op = "calculateLinearRegression"
  /\ Len(TrendInput) = 1
  /\ response = NoTrend

\* the values of the series are linear in the position index
IsLinear(data, field) ==
  \A i \in 1 .. Len(data) - 1 :
    data[i + 1][field] - data[i][field] = data[2][field] - data[1][field]

\* C26: for a series of weekly counts that is exactly linear in the
\* position index, every 2-point series included, the fitted value at
\* every index is the input value.
LinearSeriesIsItsOwnTrend ==
  (/\ lastOp.op = "calculateLinearRegression"
   /\ source.metric = "volume_trend"
   /\ Len(TrendInput) >= 2
   /\ IsLinear(TrendInput, "count")) =>
    \A i \in 1 .. Len(TrendInput) :
      response.points[i].trend = Quotient(TrendInput[i].count, 1)

\* the series 0, 1, 2, 3 came out as the fitted values 0, 1, 2, 3
LinearSeriesIsItsOwnTrendWitness ==
  /\ lastOp.op = "calculateLinearRegression"
  /\ source.metric = "volume_trend"
  /\ Len(TrendInput) = 4
  /\ \A i \in 1 .. 4 :
       /\ TrendInput[i].count = i - 1
       /\ response.points[i].trend = Quotient(i - 1, 1)

\* ---------------------------------------------------------------------
\* Determinism of the aggregations
\* ---------------------------------------------------------------------

\* the rows in every order
Reorderings(rows) ==
  { [i \in 1 .. Len(rows) |-> rows[p[i]]] :
      p \in Permutations(1 .. Len(rows)) }

\* the aggregation the facade function fn applies to its rows
Aggregated(fn, rows) ==
  CASE fn = "fetchFaxVolume" -> aggregateVolumeByDate(rows)
    [] fn \in CycleTimeFns -> aggregateCycleTimeByDate(rows)
    [] fn = "fetchCategoryDistribution" -> aggregateCategoryDistribution(rows)
    [] fn = "fetchProductivityByIndividual" ->
         aggregateProductivityByUser(rows)
    [] fn = "fetchCategoryByIndividual" -> aggregateCategoryByUser(rows)
    [] fn = "fetchPerFieldAccuracy" -> aggregateFieldAccuracy(rows)
    [] fn = "fetchAccuracyTrend" -> aggregateAccuracyTrend(rows)

\* fn returns the same rows in the same order for every order of its input
SameForEveryOrder(fn) ==
  lastOp.op = fn =>
    \A rows \in Reorderings(AggregationInput) :
      Aggregated(fn, rows) = response.data

\* C27: every aggregation function returns the same sequence of rows for
\* every permutation of its input rows.
DeterministicOutput ==
  \A fn \in AggregatingFns : SameForEveryOrder(fn)

\* the same for the time series only, whose sort key is the grouping key
DeterministicTimeSeries ==
  \A fn \in TimeSeriesFns : SameForEveryOrder(fn)

\* ---------------------------------------------------------------------
\* The cache across loads and organization switches
\* ---------------------------------------------------------------------

\* C28: in every reachable state of the static cache the organization,
\* suppliers and perSupplier parts of the active slice belong to one
\* entry of the loaded payload: all three unset, all three the legacy
\* bundle's, or all three the by_org entry of the same organization.
SliceCoherent ==
  /\ staticData.suppliers = staticData.organization
  /\ staticData.perSupplier = staticData.organization
  /\ \/ staticData.organization = NULL
     \/ staticData.organization = "legacy" /\ bundleFile.kind = "legacy"
     \/ HasOrg(staticData.fullPayload, staticData.organization)

\* a load made o1 the active organization (first of the roster, nothing
\* stored) and a switch whose storage write failed then replaced all three
\* parts of the slice by those of o2
SliceCoherentWitness ==
  /\ lastOp = [op |-> "setStaticOrganizationId", arg |-> "o2", ok |-> FALSE]
  /\ localStorage = NULL
  /\ staticData.metadata.organizations = <<"o1", "o2">>
  /\ staticData.organization = "o2"
  /\ staticData.suppliers = "o2"
  /\ staticData.perSupplier = "o2"

\* every load attempt that has ended so far ended in an error
OnlyFailedLoads ==
  /\ \E d \in Calls : calls[d].result = "rejected"
  /\ \A d \in Calls : calls[d].result \in {"none", "rejected"}

\* C29: a load attempt that ends in an error leaves the cache in the
\* not-loaded state, and a facade call that starts when every attempt so
\* far has ended in an error issues the fetches again instead of returning
\* from the cache.
FailedLoadNotMemoized ==
  [][ \A c \in Calls :
        /\ (/\ calls[c].pc = "awaiting"
            /\ calls'[c].result = "rejected"
            /\ ~AlreadyLoaded(staticData)) => ~AlreadyLoaded(staticData')
        /\ (/\ OnlyFailedLoads
            /\ calls[c].pc = "idle"
            /\ calls'[c].pc # "idle") =>
             /\ calls'[c].pc = "awaiting"
             /\ calls'[c].gz = "pending"
             /\ calls'[c].meta = "pending" ]_vars

\* the same where the document has access to storage
FailedLoadNotMemoizedWithStorage ==
  [][ localStorage # Denied =>
        \A c \in Calls :
          /\ (/\ calls[c].pc = "awaiting"
              /\ calls'[c].result = "rejected"
              /\ ~AlreadyLoaded(staticData)) => ~AlreadyLoaded(staticData')
          /\ (/\ OnlyFailedLoads
              /\ calls[c].pc = "idle"
              /\ calls'[c].pc # "idle") =>
               /\ calls'[c].pc = "awaiting"
               /\ calls'[c].gz = "pending"
               /\ calls'[c].meta = "pending" ]_vars

\* ---------------------------------------------------------------------
\* The password gate
\* ---------------------------------------------------------------------

\* C30: in a static build with a non-empty configured password the
\* Dashboard is rendered only when the configured password has been
\* submitted in this session (App's state is unlocked or the session flag
\* is 'true'); after the submission of any other value the gate is still
\* shown, its error is 'Incorrect password' and the session flag is not
\* set.
GateGuardsDashboard ==
  showGate =>
    /\ App = "Dashboard" =>
         /\ DASHBOARD_PASSWORD \in submitted
         /\ unlocked \/ sessionStorage = "true"
    /\ (lastOp.op = "handleSubmit" /\ lastOp.arg # DASHBOARD_PASSWORD) =>
         /\ App = "PasswordGate"
         /\ ~unlocked
         /\ gate.error = "Incorrect password"
         /\ sessionStorage # "true"

\* after a wrong and then the right password the page was loaded again
\* and the session flag alone let the Dashboard through
GateGuardsDashboardWitness ==
  /\ showGate
  /\ lastOp.op = "mount"
  /\ {"PW", DASHBOARD_PASSWORD} \subseteq submitted
  /\ ~unlocked
  /\ sessionStorage = "true"
  /\ App = "Dashboard"

====
